---- MODULE Spec2Model ----
(***************************************************************************)
(* Model of the todos-app repository: a document collection of Todo        *)
(* records (model/todos_model.go, model/todosModel.go), the CLI commands   *)
(* of cmd/todos-app/main.go, and the HTTP handlers of the controller       *)
(* package behind the redis response cache set up in runServer.            *)
(*                                                                         *)
(* Every step of the model is one CLI invocation or one HTTP request run   *)
(* to completion.  The variable last holds what that invocation or request *)
(* was given and what it answered.                                         *)
(***************************************************************************)
EXTENDS Integers, Sequences, FiniteSets, TLC

VARIABLES
    store,    \* the collection: sequence of Todo documents in natural order
    nextId,   \* counter behind primitive.NewObjectID()
    now,      \* wall clock in milliseconds (BSON datetime precision)
    cache,    \* redis response cache: request URI -> cached response
    got,      \* history: identifiers a GET /todos/:id has answered 200 for
    upd,      \* update-by-id calls between their fetch and their write
    last      \* the most recent invocation/request and its outcome

vars == <<store, nextId, now, cache, got, upd, last>>

----------------------------------------------------------------------------
(* Bounds of the model                                                     *)

MaxTodos == 2          \* number of records ever created
MaxTicks == 1          \* number of times the clock advances
MaxItems == 1          \* records created in the specification SpecItem

Texts == {"a", "b"}
ArgTexts == Texts \cup {""}      \* c.Args().First() is "" without argument

----------------------------------------------------------------------------
(* Program constants                                                       *)

DefaultCacheTime == 900000       \* 15 * time.Minute, in milliseconds
ObjectIDHexLen == 24             \* len(s) != 24 in primitive.ObjectIDFromHex

StatusOK == 200
StatusCreated == 201
StatusNoContent == 204
StatusBadRequest == 400
StatusInternalServerError == 500

----------------------------------------------------------------------------
(* Error values                                                            *)

Nil == "nil"
ErrNoDocuments == "mongo: no documents in result"
ErrInvalidHex == "the provided hex string is not a valid ObjectID"
ErrNoTodosDeleted == "no todos were deleted"
ErrEmptyTodo == "cannot add an empty todo"
ErrStore == "store unreachable"

----------------------------------------------------------------------------
(* primitive.ObjectID and its hex form                                     *)

HexDigit(k) ==
    <<"0","1","2","3","4","5","6","7","8","9","a","b","c","d","e","f">>[k + 1]

HexChars ==
    {"0","1","2","3","4","5","6","7","8","9",
     "a","b","c","d","e","f","A","B","C","D","E","F"}

HexVal(c) ==
    CASE c = "0" -> 0 [] c = "1" -> 1 [] c = "2" -> 2 [] c = "3" -> 3
      [] c = "4" -> 4 [] c = "5" -> 5 [] c = "6" -> 6 [] c = "7" -> 7
      [] c = "8" -> 8 [] c = "9" -> 9
      [] c \in {"a", "A"} -> 10 [] c \in {"b", "B"} -> 11
      [] c \in {"c", "C"} -> 12 [] c \in {"d", "D"} -> 13
      [] c \in {"e", "E"} -> 14 [] c \in {"f", "F"} -> 15

RECURSIVE HexOf(_, _)
HexOf(n, len) ==
    IF len = 0 THEN <<>>
    ELSE Append(HexOf(n \div 16, len - 1), HexDigit(n % 16))

\* ObjectID.Hex(): the identifier as it appears in a request URI
Hex(n) == HexOf(n, ObjectIDHexLen)

RECURSIVE HexDecode(_, _)
HexDecode(s, k) ==
    IF k = 0 THEN 0 ELSE HexDecode(s, k - 1) * 16 + HexVal(s[k])

\* primitive.ObjectIDFromHex
ObjectIDFromHex(s) ==
    IF Len(s) # ObjectIDHexLen \/ \E i \in 1..Len(s) : s[i] \notin HexChars
    THEN [err |-> ErrInvalidHex, oid |-> 0]
    ELSE [err |-> Nil, oid |-> HexDecode(s, Len(s))]

ShortId == <<"1">>
NonHexId == [i \in 1..ObjectIDHexLen |-> IF i = ObjectIDHexLen THEN "g" ELSE "0"]

\* the :id path parameters requests are made with
IdStrings == {Hex(n) : n \in 1..MaxTodos} \cup {ShortId, NonHexId}

\* ObjectIDFromHex of each path parameter, computed once
ParsedIds == [s \in IdStrings |-> ObjectIDFromHex(s)]

----------------------------------------------------------------------------
(* Todo documents                                                          *)

Todo(id, created, updated, text, completed) ==
    [id |-> id, created_at |-> created, updated_at |-> updated,
     text |-> text, completed |-> completed]

\* t := &Todo{}
ZeroTodo == Todo(0, 0, 0, "", FALSE)

\* a filter document with one key (bson.D{{}} has none, and matches all)
Filter(key, value) == [key |-> key, value |-> value]

Matches(t, filter) ==
    CASE filter.key = "" -> TRUE
      [] filter.key = "_id" -> t.id = filter.value
      [] filter.key = "text" -> t.text = filter.value
      [] filter.key = "completed" -> t.completed = filter.value

\* index of the first document matching, 0 when none: FindOne / DeleteOne /
\* FindOneAndUpdate take the first match in natural order
FirstIndex(s, filter) ==
    IF \E i \in 1..Len(s) : Matches(s[i], filter)
    THEN CHOOSE i \in 1..Len(s) :
            /\ Matches(s[i], filter)
            /\ \A j \in 1..(i - 1) : ~Matches(s[j], filter)
    ELSE 0

RemoveAt(s, i) == SubSeq(s, 1, i - 1) \o SubSeq(s, i + 1, Len(s))

----------------------------------------------------------------------------
(* Item repository, model/todos_model.go.  ok is whether the store call    *)
(* reaches the database.                                                   *)

CreateTodo(s, todo, ok) ==
    IF ok THEN [store |-> Append(s, todo), err |-> Nil]
    ELSE [store |-> s, err |-> ErrStore]

FilterTodos(s, filter, ok) ==
    IF ~ok THEN [todos |-> <<>>, err |-> ErrStore]
    ELSE LET match(t) == Matches(t, filter)
             todos == SelectSeq(s, match)
         IN IF Len(todos) = 0
            THEN [todos |-> todos, err |-> ErrNoDocuments]
            ELSE [todos |-> todos, err |-> Nil]

GetAll(s, ok) ==
    FilterTodos(s, Filter("", ""), ok)

\* as GetPending, with the empty filter of GetAll
GetPending_noFilter(s, ok) ==
    FilterTodos(s, Filter("", ""), ok)

GetPending(s, ok) ==
    FilterTodos(s, Filter("completed", FALSE), ok)

GetFinished(s, ok) ==
    FilterTodos(s, Filter("completed", TRUE), ok)

GetTodoById(s, id, ok) ==
    LET p == ParsedIds[id]
        filter == Filter("_id", p.oid)
        i == FirstIndex(s, filter)
    IN IF p.err # Nil THEN [t |-> ZeroTodo, err |-> p.err]
       ELSE IF ~ok THEN [t |-> ZeroTodo, err |-> ErrStore]
       ELSE IF i = 0 THEN [t |-> ZeroTodo, err |-> ErrNoDocuments]
       ELSE [t |-> s[i], err |-> Nil]

\* as CompleteTodo, with UpdateMany in place of FindOneAndUpdate
CompleteTodo_many(s, text, ok) ==
    IF ~ok THEN [store |-> s, err |-> ErrStore]
    ELSE IF \A i \in 1..Len(s) : s[i].text # text
    THEN [store |-> s, err |-> ErrNoDocuments]
    ELSE [store |-> [i \in 1..Len(s) |->
                        IF s[i].text = text
                        THEN [s[i] EXCEPT !.completed = TRUE] ELSE s[i]],
          err |-> Nil]

\* as CompleteTodo, with UpdateOne in place of FindOneAndUpdate: no error
\* when nothing matched
CompleteTodo_noMatchNil(s, text, ok) ==
    LET filter == Filter("text", text)
        i == FirstIndex(s, filter)
    IN IF ~ok THEN [store |-> s, err |-> ErrStore]
       ELSE IF i = 0 THEN [store |-> s, err |-> Nil]
       ELSE [store |-> [s EXCEPT ![i].completed = TRUE], err |-> Nil]

CompleteTodo(s, text, ok) ==
    LET filter == Filter("text", text)
        i == FirstIndex(s, filter)
    IN IF ~ok THEN [store |-> s, err |-> ErrStore]
       ELSE IF i = 0 THEN [store |-> s, err |-> ErrNoDocuments]
       ELSE [store |-> [s EXCEPT ![i].completed = TRUE], err |-> Nil]

DeleteTodoById(s, id, ok) ==
    LET p == ParsedIds[id]
        filter == Filter("_id", p.oid)
        i == FirstIndex(s, filter)
    IN IF p.err # Nil THEN [store |-> s, err |-> p.err]
       ELSE IF ~ok THEN [store |-> s, err |-> ErrStore]
       ELSE IF i = 0 THEN [store |-> s, err |-> ErrNoTodosDeleted]
       ELSE [store |-> RemoveAt(s, i), err |-> Nil]

\* as DeleteTodo, with DeleteMany in place of DeleteOne
DeleteTodo_many(s, text, ok) ==
    LET keep(t) == t.text # text
    IN IF ~ok THEN [store |-> s, err |-> ErrStore]
       ELSE IF \A i \in 1..Len(s) : s[i].text # text
       THEN [store |-> s, err |-> ErrNoTodosDeleted]
       ELSE [store |-> SelectSeq(s, keep), err |-> Nil]

DeleteTodo(s, text, ok) ==
    LET filter == Filter("text", text)
        i == FirstIndex(s, filter)
    IN IF ~ok THEN [store |-> s, err |-> ErrStore]
       ELSE IF i = 0 THEN [store |-> s, err |-> ErrNoTodosDeleted]
       ELSE [store |-> RemoveAt(s, i), err |-> Nil]

\* as UpdateSet, with ReplaceOne of the decoded request body in place of $set
UpdateSet_replace(s, i, todo, t) ==
    [s EXCEPT ![i] = Todo(0, 0, t, todo.text, todo.completed)]

\* the $set document of UpdateOne
UpdateSet(s, i, todo, t) ==
    [s EXCEPT ![i].completed = todo.completed,
              ![i].text = todo.text,
              ![i].updated_at = t]

\* UpdateTodo of model/todos_model.go: FindOne, then UpdateOne, each error
\* returned
UpdateTodo(s, todo, id, t, okFind, okWrite) ==
    LET p == ParsedIds[id]
        filter == Filter("_id", p.oid)
        i == FirstIndex(s, filter)
    IN IF p.err # Nil THEN [store |-> s, err |-> p.err]
       ELSE IF ~okFind THEN [store |-> s, err |-> ErrStore]
       ELSE IF i = 0 THEN [store |-> s, err |-> ErrNoDocuments]
       ELSE IF ~okWrite THEN [store |-> s, err |-> ErrStore]
       ELSE [store |-> UpdateSet(s, i, todo, t), err |-> Nil]

\* UpdateTodo of model/todos_model.go in its two store calls.  The first:
\* ObjectIDFromHex and FindOne(filter).Decode(t)
UpdateTodoFetch(s, id, ok) ==
    LET p == ParsedIds[id]
        filter == Filter("_id", p.oid)
        i == FirstIndex(s, filter)
    IN IF p.err # Nil THEN [t |-> ZeroTodo, err |-> p.err]
       ELSE IF ~ok THEN [t |-> ZeroTodo, err |-> ErrStore]
       ELSE IF i = 0 THEN [t |-> ZeroTodo, err |-> ErrNoDocuments]
       ELSE [t |-> s[i], err |-> Nil]

\* as UpdateTodoWrite, setting only the fields of todo that differ from the
\* decoded document t0
UpdateTodoWrite_changedFields(s, todo, id, t0, t, ok) ==
    LET filter == Filter("_id", ParsedIds[id].oid)
        i == FirstIndex(s, filter)
    IN IF ~ok THEN [store |-> s, err |-> ErrStore]
       ELSE IF i = 0 THEN [store |-> s, err |-> Nil]
       ELSE [store |-> [s EXCEPT
                          ![i].completed = IF todo.completed # t0.completed
                                           THEN todo.completed ELSE @,
                          ![i].text = IF todo.text # t0.text
                                      THEN todo.text ELSE @,
                          ![i].updated_at = t],
             err |-> Nil]

\* as UpdateTodoWrite, with options.Update().SetUpsert(true)
UpdateTodoWrite_upsert(s, todo, id, t0, t, ok) ==
    LET oid == ParsedIds[id].oid
        filter == Filter("_id", oid)
        i == FirstIndex(s, filter)
    IN IF ~ok THEN [store |-> s, err |-> ErrStore]
       ELSE IF i = 0
       THEN [store |-> Append(s, Todo(oid, 0, t, todo.text, todo.completed)),
             err |-> Nil]
       ELSE [store |-> UpdateSet(s, i, todo, t), err |-> Nil]

\* the second: UpdateOne(filter, $set); the decoded document t0 is not used,
\* and a filter that matches nothing is no error
UpdateTodoWrite(s, todo, id, t0, t, ok) ==
    LET filter == Filter("_id", ParsedIds[id].oid)
        i == FirstIndex(s, filter)
    IN IF ~ok THEN [store |-> s, err |-> ErrStore]
       ELSE IF i = 0 THEN [store |-> s, err |-> Nil]
       ELSE [store |-> UpdateSet(s, i, todo, t), err |-> Nil]

\* UpdateTodo of model/todosModel.go: returns the document FindOne decoded,
\* and drops what UpdateOne returns
UpdateTodo_todosModel(s, todo, id, t, okFind, okWrite) ==
    LET p == ParsedIds[id]
        filter == Filter("_id", p.oid)
        i == FirstIndex(s, filter)
    IN IF p.err # Nil THEN [store |-> s, t |-> ZeroTodo, err |-> p.err]
       ELSE IF ~okFind THEN [store |-> s, t |-> ZeroTodo, err |-> ErrStore]
       ELSE IF i = 0 THEN [store |-> s, t |-> ZeroTodo, err |-> ErrNoDocuments]
       ELSE [store |-> IF okWrite THEN UpdateSet(s, i, todo, t) ELSE s,
             t |-> s[i], err |-> Nil]

\* PrintTodos: one line per todo, numbered, green when completed
PrintTodos(todos) ==
    [i \in 1..Len(todos) |->
        [n |-> i, text |-> todos[i].text,
         color |-> IF todos[i].completed THEN "green" ELSE "yellow"]]

----------------------------------------------------------------------------
(* Command surface, cmd/todos-app/main.go.  Each operator is the Action of *)
(* one command: what it prints, what it returns, and the store it leaves.  *)

\* as Listing, without the mongo.ErrNoDocuments case
Listing_noSpecialCase(r) ==
    IF r.err # Nil
    THEN [printed |-> "none", lines |-> <<>>, err |-> r.err]
    ELSE [printed |-> "todos", lines |-> PrintTodos(r.todos), err |-> Nil]

\* rendering of a listing: the three listing commands share these lines
Listing(r) ==
    IF r.err # Nil
    THEN IF r.err = ErrNoDocuments
         THEN [printed |-> "empty", lines |-> <<>>, err |-> Nil]
         ELSE [printed |-> "none", lines |-> <<>>, err |-> r.err]
    ELSE [printed |-> "todos", lines |-> PrintTodos(r.todos), err |-> Nil]

DefaultAction(s, ok) == Listing(GetPending(s, ok))

AllCommand(s, ok) == Listing(GetAll(s, ok))

FinishedCommand(s, ok) == Listing(GetFinished(s, ok))

\* as AddCommand, without the check of str
AddCommand_noEmptyCheck(s, str, id, t1, t2, ok) ==
    CreateTodo(s, Todo(id, t1, t2, str, FALSE), ok)

AddCommand(s, str, id, t1, t2, ok) ==
    IF str = ""
    THEN [store |-> s, err |-> ErrEmptyTodo]
    ELSE CreateTodo(s, Todo(id, t1, t2, str, FALSE), ok)

DoneCommand(s, text, ok) == CompleteTodo(s, text, ok)

DeleteCommand(s, text, ok) == DeleteTodo(s, text, ok)

\* err := app.Run(os.Args); if err != nil { log.Fatal(err) }
Fatal(err) == err # Nil

----------------------------------------------------------------------------
(* HTTP surface, package controller.  A request body is what BindJSON      *)
(* makes of it: wellformed is FALSE when the body is not JSON of the       *)
(* Todo shape; absent fields bind to their zero values.                    *)

\* a body binds to a whole Todo: _id, created_at and updated_at too, zero when
\* the body does not carry them
GivenId == 255
GivenTime == 7
GivenIdStr == Hex(GivenId)

Body(wellformed, id, created, updated, text, completed) ==
    [wellformed |-> wellformed, id |-> id, created_at |-> created,
     updated_at |-> updated, text |-> text, completed |-> completed]

Bodies ==
    {Body(TRUE, 0, 0, 0, text, completed) :
        text \in ArgTexts, completed \in BOOLEAN}
        \cup {Body(TRUE, GivenId, GivenTime, GivenTime, "a", FALSE)}
        \cup {Body(FALSE, 0, 0, 0, "", FALSE)}

\* the _id of a body as the request spelled it, <<>> when it has none
BodyIdStr(body) == IF body.id = 0 THEN <<>> ELSE GivenIdStr

\* as CreateTodoHandler, generating an identifier only when the body has none
CreateTodoHandler_keepId(s, body, id, t1, t2, ok) ==
    IF ~body.wellformed
    THEN [store |-> s, status |-> StatusBadRequest, out |-> <<>>, err |-> Nil]
    ELSE LET bound == Todo(body.id, body.created_at, body.updated_at,
                           body.text, body.completed)
             newTodo == [bound EXCEPT !.created_at = t1, !.updated_at = t2,
                                      !.id = IF body.id = 0 THEN id ELSE @]
             r == CreateTodo(s, newTodo, ok)
         IN IF r.err # Nil
            THEN [store |-> r.store, status |-> StatusInternalServerError,
                  out |-> <<>>, err |-> r.err]
            ELSE [store |-> r.store, status |-> StatusCreated,
                  out |-> <<newTodo>>, err |-> Nil]

CreateTodoHandler(s, body, id, t1, t2, ok) ==
    IF ~body.wellformed
    THEN [store |-> s, status |-> StatusBadRequest, out |-> <<>>, err |-> Nil]
    ELSE LET bound == Todo(body.id, body.created_at, body.updated_at,
                           body.text, body.completed)
             newTodo == [bound EXCEPT !.created_at = t1, !.updated_at = t2,
                                      !.id = id]
             r == CreateTodo(s, newTodo, ok)
         IN IF r.err # Nil
            THEN [store |-> r.store, status |-> StatusInternalServerError,
                  out |-> <<>>, err |-> r.err]
            ELSE [store |-> r.store, status |-> StatusCreated,
                  out |-> <<newTodo>>, err |-> Nil]

GetAllTodosHandler(s, ok) ==
    LET r == GetAll(s, ok)
    IN IF r.err # Nil
       THEN [status |-> StatusInternalServerError, out |-> <<>>, err |-> r.err]
       ELSE [status |-> StatusOK, out |-> r.todos, err |-> Nil]

\* as GetTodoByIdHandler, answering 404 when no document has the identifier
GetTodoByIdHandler_notFound(s, id, ok) ==
    LET r == GetTodoById(s, id, ok)
    IN IF r.err = ErrNoDocuments
       THEN [status |-> 404, out |-> <<>>, err |-> r.err]
       ELSE IF r.err # Nil
       THEN [status |-> StatusInternalServerError, out |-> <<>>, err |-> r.err]
       ELSE [status |-> StatusOK, out |-> <<r.t>>, err |-> Nil]

GetTodoByIdHandler(s, id, ok) ==
    LET r == GetTodoById(s, id, ok)
    IN IF r.err # Nil
       THEN [status |-> StatusInternalServerError, out |-> <<>>, err |-> r.err]
       ELSE [status |-> StatusOK, out |-> <<r.t>>, err |-> Nil]

\* calls the UpdateTodo that returns (*Todo, error), model/todosModel.go
UpdateTodoByIdHandler(s, id, body, t, okFind, okWrite) ==
    IF ~body.wellformed
    THEN [store |-> s, status |-> StatusBadRequest, out |-> <<>>, err |-> Nil]
    ELSE LET r == UpdateTodo_todosModel(s, body, id, t, okFind, okWrite)
         IN IF r.err # Nil
            THEN [store |-> r.store, status |-> StatusInternalServerError,
                  out |-> <<>>, err |-> r.err]
            ELSE [store |-> r.store, status |-> StatusOK,
                  out |-> <<r.t>>, err |-> Nil]

DeleteTodoByIdHandler(s, id, ok) ==
    LET r == DeleteTodoById(s, id, ok)
    IN IF r.err # Nil
       THEN [store |-> r.store, status |-> StatusInternalServerError, err |-> r.err]
       ELSE [store |-> r.store, status |-> StatusNoContent, err |-> Nil]

\* GET /readyz: the JSON documents the handler writes, in order.  No branch
\* returns, so c.JSON(200, "") runs after either c.JSON(500, ...)
ErrRedis == "Redis is unreachable"
ErrMongo == "MongoDB is unreachable"

Written(status, body) == [status |-> status, body |-> body]

ReadyzHandler(redisOk, mongoOk) ==
    (IF ~redisOk THEN <<Written(StatusInternalServerError, ErrRedis)>>
     ELSE <<>>)
    \o (IF ~mongoOk THEN <<Written(StatusInternalServerError, ErrMongo)>>
        ELSE <<>>)
    \o <<Written(StatusOK, "")>>

\* the status line of a response is that of the first write: the header is
\* sent with it, and later writes only add to the body
StatusLine(writes) == writes[1].status

----------------------------------------------------------------------------
(* Response cache of runServer: cache.CacheByRequestURI(cacheConfig.Store, *)
(* cacheConfig.DefaultCacheTime) in front of the two GET routes.  The key  *)
(* is the request URI: <<>> stands for /api/v1/todos, an id string for     *)
(* /api/v1/todos/<id>.  The redis server itself is taken to be reachable.   *)

NoEntry == [status |-> 0, out |-> <<>>, expires |-> 0]

CacheKeys == {<<>>} \cup IdStrings

\* a live entry answers the request and the handler does not run
CacheHit(c, key, t) ==
    c[key] # NoEntry /\ t < c[key].expires

\* the response the client gets: the cached one on a hit, else the handler's
CacheByRequestURI(c, key, t, h) ==
    IF CacheHit(c, key, t)
    THEN [status |-> c[key].status, out |-> c[key].out, err |-> Nil,
          cached |-> TRUE]
    ELSE [status |-> h.status, out |-> h.out, err |-> h.err, cached |-> FALSE]

\* the cache after the request: a 2xx answer of the handler is kept for
\* DefaultCacheTime
CacheAfter(c, key, t, h) ==
    IF ~CacheHit(c, key, t) /\ h.status >= 200 /\ h.status < 300
    THEN [c EXCEPT ![key] =
            [status |-> h.status, out |-> h.out, expires |-> t + DefaultCacheTime]]
    ELSE c

----------------------------------------------------------------------------
(* State machine                                                           *)

Outcome(op, text, idstr, completed, err, status, out, lines, printed, cached) ==
    [op |-> op, text |-> text, idstr |-> idstr, completed |-> completed,
     err |-> err, status |-> status, out |-> out, lines |-> lines,
     printed |-> printed, cached |-> cached]

\* the two requests that may run UpdateTodo at the same time
Procs == {1, 2}

\* position of a call of UpdateTodo: pc is "idle" before the call, "fetched"
\* between FindOne and UpdateOne (todo is the argument, t the decoded
\* document), "done" once it has returned err
Call(pc, idstr, text, completed, t, err) ==
    [pc |-> pc, idstr |-> idstr, text |-> text, completed |-> completed,
     t |-> t, err |-> err]

Idle == Call("idle", <<>>, "", FALSE, ZeroTodo, Nil)

Init ==
    /\ store = <<>>
    /\ nextId = 1
    /\ now = 0
    /\ cache = [k \in CacheKeys |-> NoEntry]
    /\ got = {}
    /\ upd = [p \in Procs |-> Idle]
    /\ last = Outcome("none", "", <<>>, FALSE, Nil, 0, <<>>, <<>>, "none", FALSE)

\* clock advances behind a time: each is a millisecond or one cache lifetime
Ticks(t) == (t % DefaultCacheTime) + (t \div DefaultCacheTime)

\* time passes between two invocations
Tick ==
    /\ \E u \in {now + 1, now + DefaultCacheTime} :
          Ticks(u) <= MaxTicks /\ now' = u
    /\ UNCHANGED <<upd, store, nextId, cache, got, last>>

CmdDefault ==
    \E ok \in BOOLEAN :
        LET r == DefaultAction(store, ok)
        IN /\ last' = Outcome("default", "", <<>>, FALSE, r.err, 0, <<>>,
                              r.lines, r.printed, FALSE)
           /\ UNCHANGED <<upd, store, nextId, now, cache, got>>

CmdAll ==
    \E ok \in BOOLEAN :
        LET r == AllCommand(store, ok)
        IN /\ last' = Outcome("all", "", <<>>, FALSE, r.err, 0, <<>>,
                              r.lines, r.printed, FALSE)
           /\ UNCHANGED <<upd, store, nextId, now, cache, got>>

CmdFinished ==
    \E ok \in BOOLEAN :
        LET r == FinishedCommand(store, ok)
        IN /\ last' = Outcome("finished", "", <<>>, FALSE, r.err, 0, <<>>,
                              r.lines, r.printed, FALSE)
           /\ UNCHANGED <<upd, store, nextId, now, cache, got>>

CmdAdd ==
    \E str \in ArgTexts, ok \in BOOLEAN :
        LET r == AddCommand(store, str, nextId, now, now, ok)
        IN /\ nextId <= MaxTodos
           /\ store' = r.store
           /\ nextId' = IF str = "" THEN nextId ELSE nextId + 1
           /\ last' = Outcome("add", str, <<>>, FALSE, r.err, 0, <<>>, <<>>,
                              "none", FALSE)
           /\ UNCHANGED <<upd, now, cache, got>>

CmdDone ==
    \E text \in ArgTexts, ok \in BOOLEAN :
        LET r == DoneCommand(store, text, ok)
        IN /\ store' = r.store
           /\ last' = Outcome("done", text, <<>>, FALSE, r.err, 0, <<>>, <<>>,
                              "none", FALSE)
           /\ UNCHANGED <<upd, nextId, now, cache, got>>

CmdDelete ==
    \E text \in ArgTexts, ok \in BOOLEAN :
        LET r == DeleteCommand(store, text, ok)
        IN /\ store' = r.store
           /\ last' = Outcome("delete", text, <<>>, FALSE, r.err, 0, <<>>, <<>>,
                              "none", FALSE)
           /\ UNCHANGED <<upd, nextId, now, cache, got>>

\* POST /api/v1/todos
PostTodos ==
    \E body \in Bodies, ok \in BOOLEAN :
        LET r == CreateTodoHandler(store, body, nextId, now, now, ok)
        IN /\ nextId <= MaxTodos
           /\ store' = r.store
           /\ nextId' = IF body.wellformed THEN nextId + 1 ELSE nextId
           /\ last' = Outcome("POST", body.text, BodyIdStr(body),
                              body.completed, r.err,
                              r.status, r.out, <<>>, "none", FALSE)
           /\ UNCHANGED <<upd, now, cache, got>>

\* GET /api/v1/todos
GetTodos ==
    \E ok \in BOOLEAN :
        LET h == GetAllTodosHandler(store, ok)
            r == CacheByRequestURI(cache, <<>>, now, h)
        IN /\ cache' = CacheAfter(cache, <<>>, now, h)
           /\ last' = Outcome("GET", "", <<>>, FALSE, r.err, r.status, r.out,
                              <<>>, "none", r.cached)
           /\ UNCHANGED <<upd, store, nextId, now, got>>

\* GET /api/v1/todos/:id
GetTodoId ==
    \E id \in IdStrings, ok \in BOOLEAN :
        LET h == GetTodoByIdHandler(store, id, ok)
            r == CacheByRequestURI(cache, id, now, h)
            p == ParsedIds[id]
        IN /\ cache' = CacheAfter(cache, id, now, h)
           /\ got' = IF r.status = StatusOK THEN got \cup {p.oid} ELSE got
           /\ last' = Outcome("GETID", "", id, FALSE, r.err, r.status, r.out,
                              <<>>, "none", r.cached)
           /\ UNCHANGED <<upd, store, nextId, now>>

\* PUT /api/v1/todos/:id
PutTodoId ==
    \E id \in IdStrings, body \in Bodies, okFind \in BOOLEAN :
      \E okWrite \in IF okFind THEN BOOLEAN ELSE {TRUE} :
        LET r == UpdateTodoByIdHandler(store, id, body, now, okFind, okWrite)
        IN /\ store' = r.store
           /\ last' = Outcome("PUT", body.text, id, body.completed, r.err,
                              r.status, r.out, <<>>, "none", FALSE)
           /\ UNCHANGED <<upd, nextId, now, cache, got>>

\* DELETE /api/v1/todos/:id
DeleteTodoId ==
    \E id \in IdStrings, ok \in BOOLEAN :
        LET r == DeleteTodoByIdHandler(store, id, ok)
        IN /\ store' = r.store
           /\ last' = Outcome("DELETE", "", id, FALSE, r.err, r.status, <<>>,
                              <<>>, "none", FALSE)
           /\ UNCHANGED <<upd, nextId, now, cache, got>>

\* GET /readyz
Readyz ==
    \E redisOk \in BOOLEAN, mongoOk \in BOOLEAN :
        LET w == ReadyzHandler(redisOk, mongoOk)
            err == IF ~redisOk THEN ErrRedis
                   ELSE IF ~mongoOk THEN ErrMongo ELSE Nil
        IN /\ last' = Outcome("READYZ", "", <<>>, FALSE, err, StatusLine(w),
                              <<>>, w, "none", FALSE)
           /\ UNCHANGED <<store, nextId, now, cache, got, upd>>

\* a request enters UpdateTodo and runs it up to the result of FindOne
UpdateFetch ==
    \E p \in Procs, id \in IdStrings, ok \in BOOLEAN :
      \E body \in {b \in Bodies : b.wellformed} :
        LET r == UpdateTodoFetch(store, id, ok)
        IN /\ upd[p].pc # "fetched"
           /\ upd' = [upd EXCEPT ![p] =
                         IF r.err # Nil
                         THEN Call("done", id, "", FALSE, ZeroTodo, r.err)
                         ELSE Call("fetched", id, body.text, body.completed,
                                   r.t, Nil)]
           /\ UNCHANGED <<store, nextId, now, cache, got, last>>

\* a request past FindOne runs UpdateOne and returns
UpdateWrite ==
    \E p \in Procs, ok \in BOOLEAN :
        LET c == upd[p]
            r == UpdateTodoWrite(store, c, c.idstr, c.t, now, ok)
        IN /\ c.pc = "fetched"
           /\ store' = r.store
           /\ upd' = [upd EXCEPT ![p] =
                         Call("done", c.idstr, "", FALSE, ZeroTodo, r.err)]
           /\ UNCHANGED <<nextId, now, cache, got, last>>

Next ==
    \/ Tick
    \/ CmdDefault
    \/ CmdAll
    \/ CmdFinished
    \/ CmdAdd
    \/ CmdDone
    \/ CmdDelete
    \/ PostTodos
    \/ GetTodos
    \/ GetTodoId
    \/ PutTodoId
    \/ DeleteTodoId
    \/ UpdateFetch
    \/ UpdateWrite
    \/ Readyz

\* the whole system: both surfaces on one store
Spec == Init /\ [][Next]_vars

\* The sub-specifications below restrict Next to the operations a group of
\* properties is about; what they leave out cannot act.

\* the command surface, and the HTTP routes that create, list and delete
NextList ==
    \/ Tick
    \/ CmdDefault
    \/ CmdAll
    \/ CmdFinished
    \/ CmdAdd
    \/ CmdDone
    \/ CmdDelete
    \/ PostTodos
    \/ GetTodos
    \/ DeleteTodoId

SpecList == Init /\ [][NextList]_vars

\* the HTTP routes on one record: create, get, update, delete by identifier
NextItem ==
    \/ Tick
    \/ (nextId <= MaxItems /\ PostTodos)
    \/ GetTodoId
    \/ PutTodoId
    \/ DeleteTodoId

SpecItem == Init /\ [][NextItem]_vars

\* the command surface alone
NextCli ==
    \/ Tick
    \/ CmdDefault
    \/ CmdAll
    \/ CmdFinished
    \/ CmdAdd
    \/ CmdDone
    \/ CmdDelete

SpecCli == Init /\ [][NextCli]_vars

\* the two ways of deleting, on records the add command made
NextDelete ==
    \/ Tick
    \/ CmdAdd
    \/ CmdDone
    \/ CmdDelete
    \/ DeleteTodoId

SpecDelete == Init /\ [][NextDelete]_vars

----------------------------------------------------------------------------
(* Properties.  A step that leaves the clock alone is one invocation or    *)
(* request, and last' tells which.                                         *)

HasText(s, text) == \E i \in 1..Len(s) : s[i].text = text

NoMatch(op) ==
    CASE op = "default" -> \A i \in 1..Len(store) : store[i].completed
      [] op = "all" -> Len(store) = 0
      [] op = "finished" -> \A i \in 1..Len(store) : ~store[i].completed

\* s2 is s1 with its i-th record taken out
Without(s1, s2, i) ==
    /\ Len(s2) = Len(s1) - 1
    /\ \A j \in 1..(i - 1) : s2[j] = s1[j]
    /\ \A j \in i..Len(s2) : s2[j] = s1[j + 1]

\* C6: each listing command (default action, all, finished), when no record
\* matches its filter, prints the friendly empty message and returns nil, so
\* the process does not exit fatally; it exits fatally only for an error
\* other than the no-documents condition (the store being unreachable).
C6_EmptyListingIsFriendly ==
    last.op \in {"default", "all", "finished"} =>
        /\ NoMatch(last.op) =>
              \/ last.printed = "empty" /\ last.err = Nil /\ ~Fatal(last.err)
              \/ last.err = ErrStore
        /\ last.printed = "empty" => NoMatch(last.op)
        /\ Fatal(last.err) => last.err = ErrStore

C6_Witness ==
    /\ last.op = "finished"
    /\ last.printed = "empty"
    /\ last.err = Nil
    /\ Len(store) > 0

\* C7: the add command with empty text returns an error and issues no insert:
\* the store is the same before and after, whether or not the store is
\* reachable.
C7_AddEmptyFails ==
    [][(now' = now /\ last'.op = "add" /\ last'.text = "") =>
          /\ last'.err = ErrEmptyTodo
          /\ Fatal(last'.err)
          /\ store' = store]_vars

C7_Witness ==
    /\ last.op = "add"
    /\ last.text = ""
    /\ last.err = ErrEmptyTodo
    /\ Len(store) > 0

\* C8: completing by text, when some record has the text (and the store is
\* reachable), sets completed on the first such record in store order only,
\* keeps that record's text, identifier and creation timestamp, and leaves
\* every other record as it was, later records with the same text included;
\* the same command again changes nothing.
C8_DoneCompletesFirstMatch ==
    [][(now' = now /\ last'.op = "done" /\ last'.err # ErrStore
            /\ HasText(store, last'.text)) =>
          /\ last'.err = Nil
          /\ Len(store') = Len(store)
          /\ \E i \in 1..Len(store) :
                /\ store[i].text = last'.text
                /\ \A j \in 1..(i - 1) : store[j].text # last'.text
                /\ store'[i].completed = TRUE
                /\ store'[i].text = store[i].text
                /\ store'[i].id = store[i].id
                /\ store'[i].created_at = store[i].created_at
                /\ \A j \in 1..Len(store) : j # i => store'[j] = store[j]
          /\ (last.op = "done" /\ last.text = last'.text /\ last.err = Nil)
                => store' = store]_vars

C8_Witness ==
    /\ last.op = "done"
    /\ last.err = Nil
    /\ \E i, j \in 1..Len(store) :
          /\ i < j
          /\ store[i].text = last.text
          /\ store[j].text = last.text
          /\ store[i].completed
          /\ ~store[j].completed

\* C9: completing a text no record carries fails, with the not-found error
\* when the store is reachable, the command line exits fatally, and every
\* record is as it was.
C9_DoneUnknownTextFails ==
    [][(now' = now /\ last'.op = "done" /\ ~HasText(store, last'.text)) =>
          /\ last'.err \in {ErrNoDocuments, ErrStore}
          /\ Fatal(last'.err)
          /\ store' = store]_vars

C9_Witness ==
    /\ last.op = "done"
    /\ last.err = ErrNoDocuments
    /\ Len(store) > 0
    /\ ~HasText(store, last.text)

\* C10: delete-by-text and delete-by-id each remove exactly one record when a
\* record matches (also when several records share the text) and leave the
\* others as they were; when none matches, or the identifier is malformed,
\* they fail ("no todos were deleted", invalid id) and the store is unchanged.
C10_DeleteRemovesOne ==
    [][/\ (now' = now /\ last'.op = "delete") =>
            IF last'.err = ErrStore THEN store' = store
            ELSE IF HasText(store, last'.text)
            THEN /\ last'.err = Nil
                 /\ \E i \in 1..Len(store) :
                       store[i].text = last'.text /\ Without(store, store', i)
            ELSE last'.err = ErrNoTodosDeleted /\ store' = store
       /\ (now' = now /\ last'.op = "DELETE") =>
            IF last'.idstr \in {ShortId, NonHexId}
            THEN /\ last'.err = ErrInvalidHex
                 /\ last'.status = StatusInternalServerError
                 /\ store' = store
            ELSE IF last'.err = ErrStore THEN store' = store
            ELSE IF \E i \in 1..Len(store) : Hex(store[i].id) = last'.idstr
            THEN /\ last'.status = StatusNoContent
                 /\ \E i \in 1..Len(store) :
                       Hex(store[i].id) = last'.idstr /\ Without(store, store', i)
            ELSE /\ last'.err = ErrNoTodosDeleted
                 /\ last'.status = StatusInternalServerError
                 /\ store' = store]_vars

C10_Witness ==
    /\ last.op = "delete"
    /\ last.err = Nil
    /\ HasText(store, last.text)

----------------------------------------------------------------------------
(* Statements of the specification the code does not meet                  *)

CountText(s, text) == Cardinality({i \in 1..Len(s) : s[i].text = text})

\* C1: after a create with non-empty text t (add t, or POST /todos answered
\* 201) that leaves exactly one record with text t in the store, listing all
\* todos on the same surface (all, or GET /todos) yields a list with exactly
\* one record with text t, and that record is not completed.
C1_CreateThenList ==
    [][(/\ last.err = Nil
        /\ last.text # ""
        /\ CountText(store, last.text) = 1
        /\ \/ last.op = "add" /\ last'.op = "all"
           \/ last.op = "POST" /\ last.status = StatusCreated /\ last'.op = "GET"
        /\ last'.err # ErrStore) =>
          IF last'.op = "all"
          THEN /\ last'.err = Nil
               /\ \E n \in 1..Len(last'.lines) :
                     /\ last'.lines[n].text = last.text
                     /\ last'.lines[n].color = "yellow"
                     /\ \A m \in 1..Len(last'.lines) :
                           last'.lines[m].text = last.text => m = n
          ELSE /\ last'.status = StatusOK
               /\ CountText(last'.out, last.text) = 1
               /\ \A n \in 1..Len(last'.out) :
                     last'.out[n].text = last.text => ~last'.out[n].completed]_vars

\* C2: a record is created, read by identifier, and updated by identifier
\* (answered 200) with a new text and completed = true; the next read of the
\* same identifier returns the new text, completed = true, and an update
\* timestamp strictly greater than the creation timestamp.
C2_RoundTrip ==
    [][(/\ last.op = "PUT"
        /\ last.status = StatusOK
        /\ last.completed
        /\ last.text # last.out[1].text
        /\ last.out[1].id \in got
        /\ \E i \in 1..Len(store) :
              store[i].id = last.out[1].id /\ store[i].text = last.text
        /\ last'.op = "GETID"
        /\ last'.idstr = last.idstr
        /\ last'.err # ErrStore) =>
          /\ last'.status = StatusOK
          /\ last'.out[1].text = last.text
          /\ last'.out[1].completed
          /\ last'.out[1].updated_at > last'.out[1].created_at]_vars

\* C3: a PUT /todos/{id} answered 200 carries the updated record: its text
\* and completed are the text and completed of the request body.
C3_PutReturnsUpdated ==
    (last.op = "PUT" /\ last.status = StatusOK) =>
        /\ last.out[1].text = last.text
        /\ last.out[1].completed = last.completed

\* C4: no record of the store has the empty text, whichever way it was
\* created.
C4_TextNonEmpty == \A i \in 1..Len(store) : store[i].text # ""

\* C5: listing when no record matches is benign on both surfaces: the list
\* commands return no error, and GET /todos on an empty store does not answer
\* with an error status (the store being reachable).
C5_EmptyListingBenign ==
    /\ (last.op \in {"default", "all", "finished"} /\ last.err # ErrStore
            /\ NoMatch(last.op)) => last.err = Nil
    /\ (last.op = "GET" /\ last.err # ErrStore /\ Len(store) = 0)
            => last.status < StatusBadRequest

----------------------------------------------------------------------------
(* Identity of records                                                     *)

\* every way of writing a record: both creates, complete, update, both deletes
NextWrite ==
    \/ Tick
    \/ CmdAdd
    \/ PostTodos
    \/ CmdDone
    \/ PutTodoId
    \/ CmdDelete
    \/ DeleteTodoId

SpecWrite == Init /\ [][NextWrite]_vars

\* identifier and creation timestamp of each record, in store order
Keys(s) == [i \in 1..Len(s) |-> <<s[i].id, s[i].created_at>>]

UniqueIds(s) == \A i, j \in 1..Len(s) : s[i].id = s[j].id => i = j

\* C11: across create, complete, update and delete, no two records of the
\* store share an identifier, and a step leaves the identifier and the
\* creation timestamp of every record it keeps as they were: the records'
\* (identifier, created_at) pairs are the same after the step, or the same
\* with one pair removed, or the same with one new identifier appended.
C11_IdentityKept ==
    [][/\ UniqueIds(store')
       /\ \/ Keys(store') = Keys(store)
          \/ \E i \in 1..Len(store) : Keys(store') = RemoveAt(Keys(store), i)
          \/ /\ Len(store') = Len(store) + 1
             /\ SubSeq(Keys(store'), 1, Len(store)) = Keys(store)
             /\ \A i \in 1..Len(store) :
                   store[i].id # store'[Len(store')].id]_vars

C11_Witness ==
    /\ last.op = "PUT"
    /\ last.status = StatusOK
    /\ Len(store) = 2
    /\ \E i \in 1..Len(store) :
          /\ Hex(store[i].id) = last.idstr
          /\ store[i].text = last.text
          /\ store[i].completed = last.completed
          /\ store[i].updated_at > store[i].created_at

----------------------------------------------------------------------------
(* Server-assigned fields                                                  *)

\* create and update over HTTP, as time passes
NextAssign ==
    \/ Tick
    \/ (nextId <= MaxItems /\ PostTodos)
    \/ PutTodoId

SpecAssign == Init /\ [][NextAssign]_vars

\* C12: a POST /todos answered 201 appends one record whose identifier is the
\* freshly generated one and whose two timestamps are the server's clock;
\* a PUT /todos/{id} keeps every identifier and creation timestamp and sets
\* updated_at to nothing but the server's clock; and no _id, created_at or
\* updated_at that a request body carried is ever in the store.
C12_ServerAssignedFields ==
    [][/\ (now' = now /\ last'.op = "POST" /\ last'.status = StatusCreated) =>
             /\ Len(store') = Len(store) + 1
             /\ SubSeq(store', 1, Len(store)) = store
             /\ store'[Len(store')].id = nextId
             /\ \A i \in 1..Len(store) : store[i].id # nextId
             /\ store'[Len(store')].created_at = now
             /\ store'[Len(store')].updated_at = now
       /\ (now' = now /\ last'.op = "PUT") =>
             /\ Keys(store') = Keys(store)
             /\ \A i \in 1..Len(store) :
                   store'[i].updated_at \in {store[i].updated_at, now}
       /\ \A i \in 1..Len(store') :
             /\ store'[i].id # GivenId
             /\ store'[i].created_at # GivenTime
             /\ store'[i].updated_at # GivenTime]_vars

C12_Witness ==
    /\ last.op = "POST"
    /\ last.status = StatusCreated
    /\ last.idstr = GivenIdStr
    /\ now > 0
    /\ Len(store) = 1
    /\ store[1].id # GivenId
    /\ store[1].created_at = now

----------------------------------------------------------------------------
(* Status codes of the five handlers                                       *)

NextHandlers ==
    \/ (nextId <= MaxItems /\ PostTodos)
    \/ GetTodos
    \/ GetTodoId
    \/ PutTodoId
    \/ DeleteTodoId

SpecHandlers == Init /\ [][NextHandlers]_vars

\* the status a handler answers with when its repository call returned err
StatusFor(err, success) ==
    IF err = Nil THEN success ELSE StatusInternalServerError

SuccessOf(op) ==
    CASE op = "POST" -> StatusCreated
      [] op = "DELETE" -> StatusNoContent
      [] OTHER -> StatusOK

----------------------------------------------------------------------------
(* Store failures                                                          *)

StoredIds == {Hex(n) : n \in 1..MaxTodos}

\* C14: every repository operation returns an error when a store call it
\* issues fails (update-by-id issues a write only after its fetch found the
\* record); and a PUT answered 200 has written the submitted text and
\* completed to the record.
C14_StoreErrorsSurface ==
    /\ CreateTodo(store, ZeroTodo, FALSE).err # Nil
    /\ GetAll(store, FALSE).err # Nil
    /\ GetPending(store, FALSE).err # Nil
    /\ GetFinished(store, FALSE).err # Nil
    /\ \A text \in ArgTexts :
          /\ CompleteTodo(store, text, FALSE).err # Nil
          /\ DeleteTodo(store, text, FALSE).err # Nil
    /\ \A id \in StoredIds :
          /\ GetTodoById(store, id, FALSE).err # Nil
          /\ DeleteTodoById(store, id, FALSE).err # Nil
          /\ \A body \in {b \in Bodies : b.wellformed} :
                /\ UpdateTodo(store, body, id, now, FALSE, TRUE).err # Nil
                /\ UpdateTodo_todosModel(store, body, id, now, FALSE, TRUE).err
                      # Nil
                /\ (\E i \in 1..Len(store) : Hex(store[i].id) = id) =>
                      /\ UpdateTodo(store, body, id, now, TRUE, FALSE).err # Nil
                      /\ UpdateTodo_todosModel(store, body, id, now, TRUE,
                                               FALSE).err # Nil
    /\ (last.op = "PUT" /\ last.status = StatusOK) =>
          \E i \in 1..Len(store) :
             /\ Hex(store[i].id) = last.idstr
             /\ store[i].text = last.text
             /\ store[i].completed = last.completed

----------------------------------------------------------------------------
(* Updates running at the same time                                        *)

\* one record, two requests updating it, and its deletion
NextRace ==
    \/ (nextId <= MaxItems /\ PostTodos)
    \/ UpdateFetch
    \/ UpdateWrite
    \/ DeleteTodoId

SpecRace == Init /\ [][NextRace]_vars

\* the record with the identifier a call names is in s
Stored(s, idstr) == \E i \in 1..Len(s) : Hex(s[i].id) = idstr

\* C15: two requests update the same existing record at the same time.  When
\* one of them performs its write while the other is past its fetch or has
\* returned, and the store accepts the write, the call returns no error and
\* the record's text and completed are both the ones this request submitted;
\* no other record and no other field but updated_at changes.  So both
\* succeed and the record is left with the complete pair of the last writer.
C15_LastWriteWins ==
    [][\A p \in Procs :
         (/\ upd[p].pc = "fetched"
          /\ upd'[p].pc = "done"
          /\ upd'[p].err # ErrStore
          /\ Stored(store, upd[p].idstr)
          /\ \E q \in Procs \ {p} :
                upd[q].pc # "idle" /\ upd[q].idstr = upd[p].idstr) =>
            /\ upd'[p].err = Nil
            /\ Len(store') = Len(store)
            /\ \A i \in 1..Len(store) :
                  IF Hex(store[i].id) = upd[p].idstr
                  THEN /\ store'[i].text = upd[p].text
                       /\ store'[i].completed = upd[p].completed
                       /\ store'[i].id = store[i].id
                       /\ store'[i].created_at = store[i].created_at
                  ELSE store'[i] = store[i]]_vars

\* both fetched the same document; one has written and returned, the other
\* has yet to write a pair that differs in both fields
C15_Witness ==
    \E p, q \in Procs :
       /\ upd[p].pc = "done"
       /\ upd[p].err = Nil
       /\ upd[q].pc = "fetched"
       /\ upd[q].idstr = upd[p].idstr
       /\ \E i \in 1..Len(store) :
             /\ Hex(store[i].id) = upd[q].idstr
             /\ store[i].text # upd[q].t.text
             /\ store[i].completed # upd[q].t.completed
             /\ store[i].completed # upd[q].completed
             /\ upd[q].text = upd[q].t.text

Ids(s) == {s[i].id : i \in 1..Len(s)}

\* C16: a call of update-by-id that finds no record with its (well-formed)
\* identifier returns the not-found error and the store is as it was; and no
\* step of an update, whatever is interleaved with it, adds an identifier to
\* the store: identifiers appear only with a create, which takes a new one.
C16_UpdateNeverCreates ==
    [][/\ \A p \in Procs :
            (/\ upd[p].pc # "fetched"
             /\ upd'[p] # upd[p]
             /\ upd'[p].idstr \in StoredIds
             /\ ~Stored(store, upd'[p].idstr)
             /\ upd'[p].err # ErrStore) =>
               /\ upd'[p].pc = "done"
               /\ upd'[p].err = ErrNoDocuments
               /\ store' = store
       /\ upd' # upd => Ids(store') \subseteq Ids(store)
       /\ Ids(store') \subseteq Ids(store) \cup {nextId}
       /\ nextId \in Ids(store') => last'.op = "POST" /\ nextId' = nextId + 1]_vars

\* an update returned success after the record it had fetched was deleted,
\* and the record is not back
C16_Witness ==
    \E p \in Procs :
       /\ upd[p].pc = "done"
       /\ upd[p].err = Nil
       /\ last.op = "DELETE"
       /\ last.status = StatusNoContent
       /\ last.idstr = upd[p].idstr
       /\ ~Stored(store, upd[p].idstr)

\* C17: update-by-id returns success only when its write was applied to a
\* record that exists: a write step that finds no record with the identifier
\* (it was deleted after the fetch) makes the call return an error.
C17_UpdateFailsAfterDelete ==
    [][\A p \in Procs :
         (/\ upd[p].pc = "fetched"
          /\ upd'[p].pc = "done"
          /\ ~Stored(store, upd[p].idstr)) =>
            /\ upd'[p].err # Nil
            /\ StatusFor(upd'[p].err, StatusOK) = StatusInternalServerError]_vars

----------------------------------------------------------------------------
(* Pending and finished                                                    *)

Range(seq) == {seq[i] : i \in 1..Len(seq)}

\* C18: on every store (the store being reachable) the pending listing holds
\* exactly the records with completed = false and the finished listing
\* exactly those with completed = true, each once, so no record is in both
\* and the two together hold exactly the records of the list-all result; and
\* what the default action prints is the pending listing.
C18_PendingFinishedPartition ==
    LET all == GetAll(store, TRUE).todos
        pending == GetPending(store, TRUE).todos
        finished == GetFinished(store, TRUE).todos
    IN /\ Range(pending) = {t \in Range(store) : t.completed = FALSE}
       /\ Range(finished) = {t \in Range(store) : t.completed = TRUE}
       /\ Range(pending) \cap Range(finished) = {}
       /\ Range(pending) \cup Range(finished) = Range(all)
       /\ Len(pending) + Len(finished) = Len(all)
       /\ Len(all) = Cardinality(Range(all))
       /\ (last.op = "default" /\ last.err = Nil) =>
             /\ last.lines = PrintTodos(pending)
             /\ last.printed = "empty" <=> pending = <<>>

C18_Witness ==
    /\ last.op = "default"
    /\ last.printed = "todos"
    /\ Len(last.lines) = 1
    /\ Len(store) = 2
    /\ \E i \in 1..Len(store) : store[i].completed

----------------------------------------------------------------------------
(* Readiness probe                                                         *)

\* the server with its probe: records come and go while it is probed
NextProbe ==
    \/ Tick
    \/ (nextId <= MaxItems /\ PostTodos)
    \/ GetTodos
    \/ DeleteTodoId
    \/ Readyz

SpecProbe == Init /\ [][NextProbe]_vars

\* C19: GET /readyz writes exactly one response per request, with status 500
\* when the cache ping or the store ping fails and status 200 only when both
\* succeed (last.err is the first ping that failed, last.lines what the
\* handler wrote).
C19_ReadyzOneResponse ==
    last.op = "READYZ" =>
        /\ Len(last.lines) = 1
        /\ last.err # Nil => last.status = StatusInternalServerError
        /\ last.status = StatusOK => last.err = Nil

----------------------------------------------------------------------------
(* Reads after a delete                                                    *)

\* the routes that create, read and delete; a record leaves the store only
\* by a DELETE /todos/{id} answered 204
NextReads ==
    \/ Tick
    \/ (nextId <= MaxItems /\ PostTodos)
    \/ GetTodos
    \/ GetTodoId
    \/ DeleteTodoId

SpecReads == Init /\ [][NextReads]_vars

\* C20: a GET /todos or GET /todos/{id} answered 200 returns records of the
\* store as it is at the request: once DELETE /todos/{id} has removed a
\* record, no GET /todos/{id} returns it and no GET /todos lists it.
C20_ReadsSeeDeletes ==
    (last.op \in {"GET", "GETID"} /\ last.status = StatusOK) =>
        \A n \in 1..Len(last.out) : last.out[n].id \in Ids(store)

====
